---- MODULE Spec2Model ----
(***************************************************************************)
(* State-machine model of to_cal_json.py: the text-dump parser              *)
(* (parse_calibration_file), the fit-bound resolution                       *)
(* (handle_optional_parameters), the conversion (convert_calibration_file), *)
(* the merge (merge), the JSON artifact codec (json.dump / read_cal_json)   *)
(* and the driver (main).                                                   *)
(***************************************************************************)
EXTENDS Integers, Sequences, FiniteSets, TLC

(***************************************************************************)
(* Program constants (parse_calibration_file, lines 28-31).                 *)
(***************************************************************************)
CHANNELS_NO == 16
SAMPIC_NO == 2
VALUES_NO == CHANNELS_NO * SAMPIC_NO
CELLS_NO == 64

(***************************************************************************)
(* Bounds of the model.                                                     *)
(***************************************************************************)
\* data lines a file may hold after its voltage line (33 blocks need 2112)
MaxDataLines == 2113
\* non-data lines (headers, comments) a file may hold, at any position
MaxNonData == 2

(***************************************************************************)
(* Text lines.  A line is the sequence of the tokens line.split(" ") gives. *)
(* A token is the number its text converts to under float(), or Junk when   *)
(* float() raises ValueError on it (a word, the empty string, a lone "\n"). *)
(***************************************************************************)
Junk == 0 - 1
NoDb == 0 - 1

\* float(value) succeeds
float_convertable(value) == value # Junk

\* line.split(" ")[:-1]: every token but the last
AllButLast(line) == SubSeq(line, 1, Len(line) - 1)

\* list(map(float, ...)) raises ValueError on the first token float() rejects
parse_line_raises(line) == \E i \in 1..(Len(line) - 1) : ~float_convertable(line[i])

parse_line(line) == AllButLast(line)

\* a channel taken to end one line late, on the first line of the next group
end_of_channel_off(lc) == (lc % CELLS_NO = 1)

\* line_counter % CELLS_NO == 0
end_of_channel(lc) == (lc % CELLS_NO = 0)

\* "n \n": the n-th data line after the voltage line, one value and the newline token
DataLine(n) == <<n, Junk>>
\* "n  \n": first token converts, a later one (the empty string) does not
BadDataLine(n) == <<n, Junk, Junk>>
\* "# ...": first token does not convert
NonDataLine == <<Junk, 0>>
\* voltage lines: "1 2 \n", "3 1 \n" and the single-token line "5\n"
VoltageLines == {<<1, 2, Junk>>, <<3, 1, Junk>>, <<5>>, <<1, Junk, Junk>>}

(***************************************************************************)
(* Python dicts are insertion-ordered association lists with unique keys.   *)
(* A key is <<"int", n>> (the int n) or <<"str", n>> (the text of n).       *)
(***************************************************************************)
IntKey(n) == <<"int", n>>
StrKey(n) == <<"str", n>>
DictKeys(d) == {d[i].key : i \in 1..Len(d)}
DictGet(d, k) == d[CHOOSE i \in 1..Len(d) : d[i].key = k].val
DictSet(d, k, v) ==
    IF k \in DictKeys(d)
    THEN [i \in 1..Len(d) |-> IF d[i].key = k THEN [key |-> k, val |-> v] ELSE d[i]]
    ELSE Append(d, [key |-> k, val |-> v])
\* next(iter(d))
FirstKey(d) == d[1].key

VARIABLES
    \* parse_calibration_file: its locals, its position and what it returned or raised;
    \* fed and skipped count the data lines (after the voltage line) and the non-data
    \* lines read so far
    file_name, first, line_counter, temp_cells, temp_val, output, ppc, result,
    fed, skipped,
    \* main: its locals, its position, the objects its lists refer to (heap), the
    \* files written, the plots shown, the messages printed, the exception that
    \* ended it
    args, input_files, mpc, idx, parsed_data, converted_data, output_data,
    fit_from, fit_to, heap, written, plots, printed, abort,
    \* merge: its argument and what it returned or raised
    to_merge, merge_result

pvars == <<file_name, first, line_counter, temp_cells, temp_val, output, ppc, result,
           fed, skipped>>

mvars == <<args, input_files, mpc, idx, parsed_data, converted_data, output_data,
           fit_from, fit_to, heap, written, plots, printed, abort>>

gvars == <<to_merge, merge_result>>

vars == <<pvars, mvars, gvars>>

NoResult == [kind |-> "none", msg |-> "", expected |-> 0, actual |-> 0, run |-> <<>>]

\* a dict object with none of the keys the program uses
NoData == [keys |-> {}, formula |-> "", voltage |-> <<>>, values |-> <<>>, parameters |-> <<>>]

NoArgs == [function |-> "", fit_from |-> <<>>, fit_to |-> <<>>, plot |-> <<>>, merge |-> <<>>]

Unbound == 0 - 2

\* the parser is not running
ParseIdle ==
    /\ file_name = [stem |-> "", db |-> NoDb, ext |-> ""]
    /\ first = TRUE
    /\ line_counter = 1
    /\ temp_cells = <<>>
    /\ output = NoData
    /\ temp_val = [db |-> NoDb, time_offset |-> 0, sampic |-> 0, channel |-> 0, cells |-> <<>>]
    /\ ppc = "idle"
    /\ result = NoResult
    /\ fed = 0
    /\ skipped = 0

\* the driver is not running
MainIdle ==
    /\ args = NoArgs
    /\ input_files = <<>>
    /\ mpc = "idle"
    /\ idx = 1
    /\ parsed_data = <<>>
    /\ converted_data = <<>>
    /\ output_data = <<>>
    /\ fit_from = Unbound
    /\ fit_to = Unbound
    /\ heap = <<>>
    /\ written = <<>>
    /\ plots = <<>>
    /\ printed = <<>>
    /\ abort = "none"

\* merge has not been called
MergeIdle ==
    /\ to_merge = <<>>
    /\ merge_result = [called |-> FALSE, raised |-> "none", data |-> NoData]

ParseNames == {[stem |-> "run", db |-> 5, ext |-> "txt"],
               [stem |-> "run", db |-> NoDb, ext |-> "txt"]}

\* lines 38-44, before the board id is looked up
ParseInit ==
    /\ file_name \in ParseNames
    /\ first = TRUE
    /\ line_counter = 1
    /\ temp_cells = <<>>
    /\ output = [NoData EXCEPT !.keys = {"values"}]
    /\ temp_val = [db |-> NoDb, time_offset |-> 0, sampic |-> 0, channel |-> 0, cells |-> <<>>]
    /\ ppc = "open"
    /\ result = NoResult
    /\ fed = 0
    /\ skipped = 0
    /\ MainIdle
    /\ MergeIdle

\* lines 45-51: re.search('_db(\d+)', file_name), int(db.group(1))
ParseOpen ==
    /\ ppc = "open"
    /\ IF file_name.db = NoDb
       THEN /\ result' = [NoResult EXCEPT !.kind = "FileParseException",
                                          !.msg = "DB not specified in file name"]
            /\ ppc' = "done"
            /\ UNCHANGED <<temp_val, output>>
       ELSE /\ temp_val' = [temp_val EXCEPT !.db = file_name.db]
            /\ output' = [output EXCEPT !.values = <<[key |-> IntKey(file_name.db), val |-> <<>>]>>]
            /\ ppc' = "reading"
            /\ UNCHANGED result
    /\ UNCHANGED <<file_name, first, line_counter, temp_cells, fed, skipped, mvars, gvars>>

\* lines 60-64: the record appended when a channel ends
BlockRecord(db, lc, cells) ==
    [db |-> db,
     time_offset |-> 0,
     sampic |-> 1 - ((lc - 1) \div CELLS_NO) \div CHANNELS_NO,
     channel |-> ((lc - 1) \div CELLS_NO) % 16,
     cells |-> cells]

\* lines 53-66: the loop body on one line of the file
LoopBody(line) ==
    /\ ppc = "reading"
    /\ IF ~float_convertable(line[1])
       THEN UNCHANGED <<first, line_counter, temp_cells, temp_val, output, ppc, result>>
       ELSE IF parse_line_raises(line)
       THEN /\ result' = [NoResult EXCEPT !.kind = "ValueError",
                                          !.msg = "could not convert string to float"]
            /\ ppc' = "done"
            /\ UNCHANGED <<first, line_counter, temp_cells, temp_val, output>>
       ELSE IF first
       THEN /\ first' = FALSE
            /\ output' = [output EXCEPT !.keys = @ \cup {"voltage"},
                                        !.voltage = parse_line(line)]
            /\ UNCHANGED <<line_counter, temp_cells, temp_val, ppc, result>>
       ELSE LET cells == Append(temp_cells, parse_line(line))
                db == IntKey(temp_val.db)
            IN  /\ IF end_of_channel(line_counter)
                   THEN /\ temp_val' = BlockRecord(temp_val.db, line_counter, cells)
                        /\ output' = [output EXCEPT !.values =
                               DictSet(@, db, Append(DictGet(@, db), temp_val'))]
                        /\ temp_cells' = <<>>
                   ELSE /\ temp_cells' = cells
                        /\ UNCHANGED <<temp_val, output>>
                /\ line_counter' = line_counter + 1
                /\ UNCHANGED <<first, ppc, result>>

\* the file's next line is a header or comment line
ReadNonDataLine ==
    /\ skipped < MaxNonData
    /\ LoopBody(NonDataLine)
    /\ skipped' = skipped + 1
    /\ UNCHANGED <<file_name, fed, mvars, gvars>>

\* the file's next line is its first data line
ReadVoltageLine ==
    /\ first
    /\ \E line \in VoltageLines : LoopBody(line)
    /\ UNCHANGED <<file_name, fed, skipped, mvars, gvars>>

\* the file's next line is a data line after the voltage line
ReadDataLine ==
    /\ ~first
    /\ fed < MaxDataLines
    /\ \E line \in {DataLine(fed + 1), BadDataLine(fed + 1)} : LoopBody(line)
    /\ fed' = fed + 1
    /\ UNCHANGED <<file_name, skipped, mvars, gvars>>

\* lines 68-71: the file is exhausted
EndOfFile ==
    /\ ppc = "reading"
    /\ LET got == Len(DictGet(output.values, FirstKey(output.values)))
       IN  result' = IF VALUES_NO # got
                     THEN [NoResult EXCEPT !.kind = "FileParseException",
                                           !.msg = "Corrupt file or wrong CHANNELS_NO, SAMPIC_NO or CELLS_NO values specified",
                                           !.expected = VALUES_NO,
                                           !.actual = got]
                     ELSE [NoResult EXCEPT !.kind = "run", !.run = output]
    /\ ppc' = "done"
    /\ UNCHANGED <<file_name, first, line_counter, temp_cells, temp_val, output, fed, skipped, mvars, gvars>>

ParseNext == ParseOpen \/ ReadNonDataLine \/ ReadVoltageLine \/ ReadDataLine \/ EndOfFile

SpecParse == ParseInit /\ [][ParseNext]_vars

\* the blocks of the one board of a run
BlocksOf(run) == DictGet(run.values, FirstKey(run.values))

(***************************************************************************)
(* C3 (as claimed): for a file whose name carries a board id,               *)
(* parse_calibration_file returns a run exactly when the number of          *)
(* completed blocks is 32, and in every other case raises                   *)
(* FileParseException carrying the expected (32) and the actual count.      *)
(***************************************************************************)
C3_RunIffThirtyTwoBlocks ==
    (ppc = "done" /\ file_name.db # NoDb) =>
        LET actual == Len(BlocksOf(output))
        IN  /\ (result.kind = "run") <=> (actual = 32)
            /\ (result.kind # "run") =>
                   /\ result.kind = "FileParseException"
                   /\ result.expected = 32
                   /\ result.actual = actual

(***************************************************************************)
(* C9: in every run parse_calibration_file returns, block g (0..31) has     *)
(* sampic 1 - g div 16, channel g mod 16, time_offset 0 and exactly the 64  *)
(* data lines 64g+1 .. 64(g+1) after the voltage line as its cell rows, in  *)
(* file order; the (sampic, channel) pairs are pairwise distinct, sampic 1  *)
(* comes first, and non-data lines anywhere in the file change nothing.     *)
(***************************************************************************)
C9_BlocksByOrdinal ==
    (result.kind = "run") =>
        LET bl == DictGet(result.run.values, IntKey(file_name.db))
        IN  /\ Len(bl) = 32
            /\ \A g \in 0..31 :
                  /\ bl[g + 1].sampic = 1 - (g \div 16)
                  /\ bl[g + 1].channel = g % 16
                  /\ bl[g + 1].time_offset = 0
                  /\ bl[g + 1].sampic \in {0, 1}
                  /\ bl[g + 1].channel \in 0..15
                  /\ bl[g + 1].cells = [i \in 1..64 |-> <<64 * g + i>>]
            /\ \A g, h \in 1..32 :
                  /\ (g # h) => <<bl[g].sampic, bl[g].channel>> # <<bl[h].sampic, bl[h].channel>>
                  /\ (bl[g].sampic = 1 /\ bl[h].sampic = 0) => g < h

\* a run is returned from a file that holds non-data lines
C9_Witness == result.kind = "run" /\ skipped > 0 /\ fed > 32 * 64

(***************************************************************************)
(* Small helpers.                                                           *)
(***************************************************************************)
Range(f) == {f[i] : i \in DOMAIN f}
SeqsUpTo(S, lo, hi) == UNION {[1..k -> S] : k \in lo..hi}
SetMax(S) == CHOOSE x \in S : \A y \in S : y <= x
SetMin(S) == CHOOSE x \in S : \A y \in S : x <= y
\* the board a dict key names, whether the key is the int 5 or the text "5"
Board(key) == key[2]

(***************************************************************************)
(* File names.  A name is its stem, the board id '_db(\d+)' finds in it    *)
(* (NoDb when the pattern does not match) and its extension.                *)
(***************************************************************************)
\* re.search(".cal.json", file_name, re.IGNORECASE) is not None
has_extension(name) == name.ext = "cal.json"

\* file_name[:file_name.rfind(".")] + ".cal.json"
OutputFileName(name) == [name EXCEPT !.ext = "cal.json"]

\* lines 210-212: the merged file's name
MergeFileName(name) == IF has_extension(name) THEN name ELSE [name EXCEPT !.ext = "cal.json"]

(***************************************************************************)
(* The artifact codec.  A JSON text of an object is the set of its top      *)
(* level keys, its formula and the list of the (key, value) pairs of its    *)
(* parameters object, in the order written; every key of a JSON object is   *)
(* a string, and a text may hold the same key twice.                        *)
(***************************************************************************)
\* json.dump turns an int key into the string of its digits
JsonKey(key) == StrKey(key[2])

\* json.dump(data, outfile)
JsonDump(data) ==
    [keys |-> data.keys,
     formula |-> data.formula,
     parameters |-> [i \in 1..Len(data.parameters) |->
                        [key |-> JsonKey(data.parameters[i].key),
                         val |-> data.parameters[i].val]]]

\* dict(pairs): a key met again keeps its place and takes the later value
RECURSIVE DictOfPairs(_, _)
DictOfPairs(pairs, n) ==
    IF n = 0 THEN <<>>
    ELSE DictSet(DictOfPairs(pairs, n - 1), pairs[n].key, pairs[n].val)

\* json.load(file)
JsonLoad(text) ==
    [NoData EXCEPT !.keys = text.keys,
                   !.formula = text.formula,
                   !.parameters = DictOfPairs(text.parameters, Len(text.parameters))]

\* read_cal_json(file_name), lines 143-146
read_cal_json(file) == JsonLoad(file.content)

\* Python's == on two of these dict objects: same keys, same values, order aside
DictEq(d, e) ==
    /\ DictKeys(d) = DictKeys(e)
    /\ \A k \in DictKeys(d) : DictGet(d, k) = DictGet(e, k)

DataEq(a, b) ==
    /\ a.keys = b.keys
    /\ a.formula = b.formula
    /\ a.voltage = b.voltage
    /\ DictEq(a.values, b.values)
    /\ DictEq(a.parameters, b.parameters)

(***************************************************************************)
(* merge, lines 148-158.  The result is the exception raised ("none" when   *)
(* merge returns) and merged_data as the call leaves it.                    *)
(***************************************************************************)
\* lines 151-157: the two loops, from the j-th key of the i-th remaining object on
RECURSIVE MergeLoop(_, _, _, _, _)
MergeLoop(merged_data, merged_keys, rest, i, j) ==
    IF i > Len(rest)
    THEN [called |-> TRUE, raised |-> "none", data |-> merged_data]
    ELSE IF "parameters" \notin rest[i].keys
    THEN [called |-> TRUE, raised |-> "KeyError", data |-> merged_data]
    ELSE IF j > Len(rest[i].parameters)
    THEN MergeLoop(merged_data, merged_keys, rest, i + 1, 1)
    ELSE LET key == rest[i].parameters[j].key
         IN  IF key \notin Range(merged_keys)
             THEN MergeLoop([merged_data EXCEPT !.parameters =
                                 DictSet(@, key, rest[i].parameters[j].val)],
                            Append(merged_keys, key), rest, i, j + 1)
             ELSE [called |-> TRUE, raised |-> "FileMergeException", data |-> merged_data]

\* a merge whose loop leaves out the first of the remaining objects
merge_skipping(list) ==
    IF list = <<>>
    THEN [called |-> TRUE, raised |-> "IndexError", data |-> NoData]
    ELSE LET merged_data == list[Len(list)]
         IN  IF "parameters" \notin merged_data.keys
             THEN [called |-> TRUE, raised |-> "KeyError", data |-> merged_data]
             ELSE MergeLoop(merged_data,
                            [i \in 1..Len(merged_data.parameters) |-> merged_data.parameters[i].key],
                            SubSeq(list, 2, Len(list) - 1), 1, 1)

\* merge(to_merge): pop() takes the last object, the loops fold the others into it
merge(list) ==
    IF list = <<>>
    THEN [called |-> TRUE, raised |-> "IndexError", data |-> NoData]
    ELSE LET merged_data == list[Len(list)]
         IN  IF "parameters" \notin merged_data.keys
             THEN [called |-> TRUE, raised |-> "KeyError", data |-> merged_data]
             ELSE MergeLoop(merged_data,
                            [i \in 1..Len(merged_data.parameters) |-> merged_data.parameters[i].key],
                            SubSeq(list, 1, Len(list) - 1), 1, 1)

(***************************************************************************)
(* handle_optional_parameters, lines 84-91.  An optional argument is <<>>   *)
(* (None) or <<t>>, t the token of the text given on the command line.      *)
(***************************************************************************)
\* max(...) and min(...) raise ValueError on an empty sequence, float(fit_from) and
\* float(fit_to) on a text that is no number
handle_optional_parameters_raises(runs, from, to) ==
    \/ to = <<>> /\ runs = <<>>
    \/ to = <<>> /\ \E r \in 1..Len(runs) : runs[r].voltage = <<>>
    \/ from # <<>> /\ ~float_convertable(from[1])
    \/ to # <<>> /\ ~float_convertable(to[1])

\* the default taken as the largest, not the smallest, of the runs' maxima
handle_optional_parameters_max(runs, from, to) ==
    <<IF from = <<>> THEN 0 ELSE from[1],
      IF to = <<>>
      THEN SetMax({SetMax(Range(runs[r].voltage)) : r \in 1..Len(runs)})
      ELSE to[1]>>

\* the pair (fit_from, fit_to) returned
handle_optional_parameters(runs, from, to) ==
    <<IF from = <<>> THEN 0 ELSE from[1],
      IF to = <<>>
      THEN SetMin({SetMax(Range(runs[r].voltage)) : r \in 1..Len(runs)})
      ELSE to[1]>>

(***************************************************************************)
(* The driver's input files.  A file is its name and its content: for a     *)
(* text dump, the tokens of its first data line (<<>> when it has none)     *)
(* and the number of data lines after it; for a .cal.json file, its JSON    *)
(* text.  Inside the driver the cells of a block are "samples" (rows read   *)
(* from the dump), "parameters" (fit results) or "loaded" (read from JSON). *)
(***************************************************************************)
NoJson == [keys |-> {}, formula |-> "", parameters |-> <<>>]

\* parse_calibration_file on a whole file, lines 26-71: what the loop of
\* SpecParse leaves after voltage_line and data_lines well-formed data lines
parse_calibration_file(file) ==
    IF file.name.db = NoDb
    THEN [NoResult EXCEPT !.kind = "FileParseException",
                          !.msg = "DB not specified in file name"]
    ELSE IF file.voltage_line # <<>> /\ parse_line_raises(file.voltage_line)
    THEN [NoResult EXCEPT !.kind = "ValueError",
                          !.msg = "could not convert string to float"]
    ELSE LET db == file.name.db
             got == IF file.voltage_line = <<>> THEN 0 ELSE file.data_lines \div CELLS_NO
         IN  IF VALUES_NO # got
             THEN [NoResult EXCEPT !.kind = "FileParseException",
                                   !.msg = "Corrupt file or wrong CHANNELS_NO, SAMPIC_NO or CELLS_NO values specified",
                                   !.expected = VALUES_NO,
                                   !.actual = got]
             ELSE [NoResult EXCEPT !.kind = "run",
                       !.run = [NoData EXCEPT
                                  !.keys = {"values", "voltage"},
                                  !.voltage = parse_line(file.voltage_line),
                                  !.values = <<[key |-> IntKey(db),
                                                val |-> [g \in 1..got |->
                                                    BlockRecord(db, g * CELLS_NO, "samples")]]>>]]

RawFile(db, voltage_line, data_lines) ==
    [name |-> [stem |-> "run", db |-> db, ext |-> "txt"],
     voltage_line |-> voltage_line, data_lines |-> data_lines, content |-> NoJson]

LoadedBlocks(db) == [g \in 1..VALUES_NO |-> BlockRecord(db, g * CELLS_NO, "loaded")]

JsonFile(stem, keys, formula, boards) ==
    [name |-> [stem |-> stem, db |-> NoDb, ext |-> "cal.json"],
     voltage_line |-> <<>>, data_lines |-> 0,
     content |-> [keys |-> keys, formula |-> formula,
                  parameters |-> [i \in 1..Len(boards) |->
                                     [key |-> StrKey(boards[i]), val |-> LoadedBlocks(boards[i])]]]]

\* text dumps: two well-formed runs, a run one line short of its 32nd block, a run
\* whose voltage line is the single token "5\n"
RawFiles ==
    {RawFile(5, <<1, 2, Junk>>, VALUES_NO * CELLS_NO),
     RawFile(7, <<3, 1, Junk>>, VALUES_NO * CELLS_NO),
     RawFile(5, <<1, 2, Junk>>, VALUES_NO * CELLS_NO - 1),
     RawFile(5, <<5>>, VALUES_NO * CELLS_NO)}

\* .cal.json files: boards 5 and 7 under pol1, board 5 under pol2, a text without
\* "parameters", a text without "formula"
JsonFiles ==
    {JsonFile("a", {"formula", "parameters"}, "pol1", <<5>>),
     JsonFile("b", {"formula", "parameters"}, "pol1", <<7>>),
     JsonFile("c", {"formula", "parameters"}, "pol2", <<5>>),
     JsonFile("d", {"formula"}, "pol1", <<>>),
     JsonFile("e", {"parameters"}, "", <<5>>)}

InputFiles == RawFiles \cup JsonFiles

\* files on the command line
MaxFiles == 2

ArgSets ==
    [function : {"pol1"},
     fit_from : {<<>>},
     fit_to : {<<>>, <<2>>},
     plot : {<<>>, <<0>>},
     merge : {<<>>, <<[stem |-> "out", db |-> NoDb, ext |-> ""]>>}]

(***************************************************************************)
(* convert_calibration_file, lines 121-141.  The fit (ROOT) and the plot    *)
(* (matplotlib) are external: an outcome says whether the fit inside        *)
(* draw_plots succeeds and in which block, if any, the fit of a cell        *)
(* raises.  The result is the exception raised, the data object as the call *)
(* leaves it (it is changed in place) and whether plt.show() was reached.   *)
(***************************************************************************)
FitOutcomes == [plot_fit_ok : BOOLEAN, fail_block : {0, 1, VALUES_NO}]

\* lines 133-137 stopped before block b: value["cells"] replaced in the blocks before
ConvertedUpTo(blocks, b) ==
    [g \in 1..Len(blocks) |->
        IF g < b THEN [blocks[g] EXCEPT !.cells = "parameters"] ELSE blocks[g]]

convert_calibration_file(data, function, channel_to_plot, outcome) ==
    LET db_no == FirstKey(data.values)
        blocks == DictGet(data.values, db_no)
        plotted == channel_to_plot # <<>>
    IN  IF plotted /\ channel_to_plot[1] >= Len(blocks)
        THEN [raised |-> "IndexError", data |-> data, plotted |-> FALSE]
        ELSE IF plotted /\ ~outcome.plot_fit_ok
        THEN [raised |-> "FitError", data |-> data, plotted |-> FALSE]
        ELSE IF outcome.fail_block # 0
        THEN [raised |-> "FitError",
              data |-> [data EXCEPT !.values =
                           DictSet(@, db_no, ConvertedUpTo(blocks, outcome.fail_block))],
              plotted |-> plotted]
        ELSE [raised |-> "none",
              data |-> [NoData EXCEPT
                          !.keys = (data.keys \ {"voltage", "values"}) \cup {"parameters", "formula"},
                          !.formula = function,
                          !.parameters = DictSet(data.values, db_no,
                                                 ConvertedUpTo(blocks, Len(blocks) + 1))],
              plotted |-> plotted]

(***************************************************************************)
(* main, lines 163-218.  heap[i] is the object made from input file i       *)
(* (NoData when file i gave none); the lists hold (file name, i) pairs.     *)
(***************************************************************************)
Init ==
    /\ ParseIdle
    /\ MergeIdle
    /\ args \in ArgSets
    /\ input_files \in SeqsUpTo(InputFiles, 1, MaxFiles)
    /\ mpc = "read"
    /\ idx = 1
    /\ parsed_data = <<>>
    /\ converted_data = <<>>
    /\ output_data = <<>>
    /\ fit_from = Unbound
    /\ fit_to = Unbound
    /\ heap = <<>>
    /\ written = <<>>
    /\ plots = <<>>
    /\ printed = <<>>
    /\ abort = "none"

\* lines 179-192: one turn of the loop over args.input_files
ReadFile ==
    /\ mpc = "read"
    /\ LET file == input_files[idx]
           last == (idx = Len(input_files))
       IN  IF has_extension(file.name)
           THEN LET data == read_cal_json(file)
                IN  /\ heap' = Append(heap, data)
                    /\ IF "formula" \notin data.keys
                       THEN /\ abort' = "KeyError"
                            /\ mpc' = "aborted"
                            /\ UNCHANGED <<idx, output_data, printed>>
                       ELSE /\ IF args.merge # <<>> /\ data.formula # args.function
                               THEN /\ printed' = Append(printed, <<idx, "formula">>)
                                    /\ UNCHANGED output_data
                               ELSE /\ output_data' = Append(output_data, <<file.name, idx>>)
                                    /\ UNCHANGED printed
                            /\ mpc' = IF last THEN "bounds" ELSE "read"
                            /\ idx' = IF last THEN 1 ELSE idx + 1
                            /\ UNCHANGED abort
                    /\ UNCHANGED parsed_data
           ELSE LET res == parse_calibration_file(file)
                IN  /\ IF res.kind = "run"
                       THEN /\ heap' = Append(heap, res.run)
                            /\ parsed_data' = Append(parsed_data, <<file.name, idx>>)
                            /\ UNCHANGED printed
                       ELSE /\ heap' = Append(heap, NoData)
                            /\ printed' = Append(printed, <<idx, res.kind>>)
                            /\ UNCHANGED parsed_data
                    /\ mpc' = IF last THEN "bounds" ELSE "read"
                    /\ idx' = IF last THEN 1 ELSE idx + 1
                    /\ UNCHANGED <<abort, output_data>>
    /\ UNCHANGED <<args, input_files, converted_data, fit_from, fit_to, written, plots>>
    /\ UNCHANGED <<pvars, gvars>>

\* the objects a list of (file name, object) pairs refers to
Objects(list) == [i \in 1..Len(list) |-> heap[list[i][2]]]

\* lines 194-195 without the test of parsed_data
ResolveBoundsUnguarded ==
    /\ mpc = "bounds"
    /\ IF handle_optional_parameters_raises(Objects(parsed_data), args.fit_from, args.fit_to)
       THEN /\ abort' = "ValueError"
            /\ mpc' = "aborted"
            /\ UNCHANGED <<fit_from, fit_to>>
       ELSE LET pair == handle_optional_parameters(Objects(parsed_data),
                                                   args.fit_from, args.fit_to)
            IN  /\ fit_from' = pair[1]
                /\ fit_to' = pair[2]
                /\ mpc' = IF parsed_data = <<>> THEN "collect" ELSE "convert"
                /\ UNCHANGED abort
    /\ UNCHANGED <<args, input_files, idx, parsed_data, converted_data, output_data,
                   heap, written, plots, printed>>
    /\ UNCHANGED <<pvars, gvars>>

\* lines 194-195: the bounds are resolved once, if any run was parsed
ResolveBounds ==
    /\ mpc = "bounds"
    /\ IF parsed_data # <<>>
       THEN IF handle_optional_parameters_raises(Objects(parsed_data), args.fit_from, args.fit_to)
            THEN /\ abort' = "ValueError"
                 /\ mpc' = "aborted"
                 /\ UNCHANGED <<fit_from, fit_to>>
            ELSE LET pair == handle_optional_parameters(Objects(parsed_data),
                                                        args.fit_from, args.fit_to)
                 IN  /\ fit_from' = pair[1]
                     /\ fit_to' = pair[2]
                     /\ mpc' = "convert"
                     /\ UNCHANGED abort
       ELSE /\ mpc' = "collect"
            /\ UNCHANGED <<fit_from, fit_to, abort>>
    /\ UNCHANGED <<args, input_files, idx, parsed_data, converted_data, output_data,
                   heap, written, plots, printed>>
    /\ UNCHANGED <<pvars, gvars>>

\* lines 197-203: one turn of the loop over parsed_data
ConvertFile ==
    /\ mpc = "convert"
    /\ \E outcome \in FitOutcomes :
         LET name == parsed_data[idx][1]
             ref == parsed_data[idx][2]
             res == convert_calibration_file(heap[ref], args.function, args.plot, outcome)
         IN  /\ heap' = [heap EXCEPT ![ref] = res.data]
             /\ plots' = IF res.plotted THEN Append(plots, ref) ELSE plots
             /\ IF res.raised = "none"
                THEN /\ converted_data' = Append(converted_data, <<name, ref>>)
                     /\ args' = [args EXCEPT !.plot = <<>>]
                     /\ UNCHANGED printed
                ELSE /\ printed' = Append(printed, <<ref, res.raised>>)
                     /\ UNCHANGED <<converted_data, args>>
    /\ mpc' = IF idx = Len(parsed_data) THEN "collect" ELSE "convert"
    /\ idx' = IF idx = Len(parsed_data) THEN 1 ELSE idx + 1
    /\ UNCHANGED <<input_files, parsed_data, output_data, fit_from, fit_to, written, abort>>
    /\ UNCHANGED <<pvars, gvars>>

\* lines 205-207: the loop over converted_data
CollectOutputs ==
    /\ mpc = "collect"
    /\ output_data' = output_data \o
           [i \in 1..Len(converted_data) |->
               <<OutputFileName(converted_data[i][1]), converted_data[i][2]>>]
    /\ mpc' = IF args.merge # <<>> THEN "merge"
              ELSE IF output_data' = <<>> THEN "done" ELSE "write"
    /\ UNCHANGED <<args, input_files, idx, parsed_data, converted_data, fit_from, fit_to,
                   heap, written, plots, printed, abort>>
    /\ UNCHANGED <<pvars, gvars>>

\* lines 209-214: merge mode
MergeOutputs ==
    /\ mpc = "merge"
    /\ to_merge' = Objects(output_data)
    /\ merge_result' = merge(to_merge')
    /\ heap' = IF output_data = <<>> THEN heap
               ELSE [heap EXCEPT ![output_data[Len(output_data)][2]] = merge_result'.data]
    /\ IF merge_result'.raised # "none"
       THEN /\ abort' = merge_result'.raised
            /\ mpc' = "aborted"
            /\ UNCHANGED output_data
       ELSE /\ output_data' = << <<MergeFileName(args.merge[1]),
                                   output_data[Len(output_data)][2]>> >>
            /\ mpc' = "write"
            /\ UNCHANGED abort
    /\ UNCHANGED <<args, input_files, idx, parsed_data, converted_data, fit_from, fit_to,
                   written, plots, printed>>
    /\ UNCHANGED pvars

\* lines 216-218: one turn of the loop over output_data
WriteFile ==
    /\ mpc = "write"
    /\ written' = Append(written, [name |-> output_data[idx][1],
                                   ref |-> output_data[idx][2],
                                   text |-> JsonDump(heap[output_data[idx][2]])])
    /\ mpc' = IF idx = Len(output_data) THEN "done" ELSE "write"
    /\ idx' = IF idx = Len(output_data) THEN 1 ELSE idx + 1
    /\ UNCHANGED <<args, input_files, parsed_data, converted_data, output_data, fit_from,
                   fit_to, heap, plots, printed, abort>>
    /\ UNCHANGED <<pvars, gvars>>

Next ==
    \/ ReadFile
    \/ ResolveBounds
    \/ ConvertFile
    \/ CollectOutputs
    \/ MergeOutputs
    \/ WriteFile

Spec == Init /\ [][Next]_vars

(***************************************************************************)
(* handle_optional_parameters on its own: any batch of parsed runs, any     *)
(* --fit_from and --fit_to.                                                 *)
(***************************************************************************)
\* parsed runs a batch may hold
MaxRuns == 2

VoltageRows == {<<1, 2>>, <<3, 1>>, <<2>>, <<>>}

RunWithVoltage(v) ==
    parse_calibration_file(RawFile(5, Append(v, Junk), VALUES_NO * CELLS_NO)).run

BoundsInit ==
    /\ ParseIdle
    /\ MergeIdle
    /\ args \in [function : {"pol1"},
                 fit_from : {<<>>, <<1>>},
                 fit_to : {<<>>, <<1>>, <<5>>, <<Junk>>},
                 plot : {<<>>},
                 merge : {<<>>}]
    /\ input_files = <<>>
    /\ mpc = "bounds"
    /\ idx = 1
    /\ heap \in SeqsUpTo({RunWithVoltage(v) : v \in VoltageRows}, 1, MaxRuns)
    /\ parsed_data = [i \in 1..Len(heap) |-> <<RawFile(5, <<>>, 0).name, i>>]
    /\ converted_data = <<>>
    /\ output_data = <<>>
    /\ fit_from = Unbound
    /\ fit_to = Unbound
    /\ written = <<>>
    /\ plots = <<>>
    /\ printed = <<>>
    /\ abort = "none"

BoundsNext == ResolveBounds

SpecBounds == BoundsInit /\ [][BoundsNext]_vars

(***************************************************************************)
(* merge on its own: any list of artifacts, loaded or converted.            *)
(***************************************************************************)
\* artifacts a merge may be given
MaxMerge == 3

\* the artifact convert_calibration_file makes of a well-formed dump of board db
ConvertedArtifact(db) ==
    convert_calibration_file(
        parse_calibration_file(RawFile(db, <<1, 2, Junk>>, VALUES_NO * CELLS_NO)).run,
        "pol1", <<>>, [plot_fit_ok |-> TRUE, fail_block |-> 0]).data

MergeArtifacts ==
    {read_cal_json(f) : f \in JsonFiles}
    \cup {read_cal_json(JsonFile("f", {"formula", "parameters"}, "pol1", <<7, 9>>))}
    \cup {ConvertedArtifact(5), ConvertedArtifact(9)}

MergeInit ==
    /\ ParseIdle
    /\ MainIdle
    /\ to_merge \in SeqsUpTo(MergeArtifacts, 0, MaxMerge)
    /\ merge_result = [called |-> FALSE, raised |-> "none", data |-> NoData]

CallMerge ==
    /\ ~merge_result.called
    /\ merge_result' = merge(to_merge)
    /\ UNCHANGED <<to_merge, pvars, mvars>>

MergeNext == CallMerge

SpecMerge == MergeInit /\ [][MergeNext]_vars

(***************************************************************************)
(* Properties of the driver (Spec).                                         *)
(***************************************************************************)
\* two artifacts carry a common board, whatever the type of the keys
SharesBoard(a, b) ==
    \E k \in DictKeys(a.parameters), l \in DictKeys(b.parameters) : Board(k) = Board(l)

\* no board appears under two keys of the mapping
BoardsUnique(d) ==
    \A k, l \in DictKeys(d) : (Board(k) = Board(l)) => (k = l)

(***************************************************************************)
(* C1 (as claimed): in merge mode, when two different artifacts handed to   *)
(* merge carry the same board id, whatever their origin, merge raises       *)
(* FileMergeException and no output file is written; the merged mapping     *)
(* never holds a board twice.                                               *)
(***************************************************************************)
C1_SharedBoardAbortsMerge ==
    (/\ merge_result.called
     /\ \A i \in 1..Len(to_merge) : {"formula", "parameters"} \subseteq to_merge[i].keys
     /\ \E i, j \in 1..Len(to_merge) : i # j /\ SharesBoard(to_merge[i], to_merge[j]))
    => (/\ merge_result.raised = "FileMergeException"
        /\ abort = "FileMergeException"
        /\ written = <<>>)

(***************************************************************************)
(* C4 (as claimed): every valid artifact main writes with json.dump is      *)
(* read back by read_cal_json equal to itself in every field: formula, set  *)
(* of board-id keys, and each board's records.                              *)
(***************************************************************************)
C4_RoundTrip ==
    \A i \in 1..Len(written) :
        ({"formula", "parameters"} \subseteq heap[written[i].ref].keys)
        => DataEq(JsonLoad(written[i].text), heap[written[i].ref])

(***************************************************************************)
(* C5 (as claimed): a .cal.json input whose JSON lacks "formula" or lacks   *)
(* "parameters" is never written to an output file, in merge mode and in    *)
(* non-merge mode alike.                                                    *)
(***************************************************************************)
C5_IncompleteArtifactNeverWritten ==
    \A i \in 1..Len(written) :
        LET file == input_files[written[i].ref]
        IN  has_extension(file.name) => ({"formula", "parameters"} \subseteq file.content.keys)

RawOnly == \A i \in 1..Len(input_files) : ~has_extension(input_files[i].name)

HasRaw == \E i \in 1..Len(input_files) : ~has_extension(input_files[i].name)

(***************************************************************************)
(* C6 (as claimed): for a batch of raw-run inputs (of distinct boards, with *)
(* non-empty voltage lines), whatever runs fail to parse or to convert, the *)
(* driver does not abort.                                                   *)
(***************************************************************************)
C6_FailedRunsNeverAbort ==
    (/\ RawOnly
     /\ \A i, j \in 1..Len(input_files) :
            (i # j) => (input_files[i].name.db # input_files[j].name.db)
     /\ \A i \in 1..Len(input_files) : Len(input_files[i].voltage_line) > 1)
    => abort = "none"

(***************************************************************************)
(* Supporting C6: what does hold of skipped runs.  A run that failed to     *)
(* parse or to convert is in neither converted_data nor output_data, every  *)
(* run that parsed and converted is there exactly once, as a complete       *)
(* artifact, and no exception of the parser or of the fit ends the driver.  *)
(***************************************************************************)
Failed(i) == \E k \in 1..Len(printed) : printed[k][1] = i /\ printed[k][2] # "formula"

Complete(data) ==
    /\ data.keys = {"formula", "parameters"}
    /\ \A k \in DictKeys(data.parameters) :
         LET bl == DictGet(data.parameters, k)
         IN  Len(bl) = VALUES_NO /\ \A g \in 1..Len(bl) : bl[g].cells = "parameters"

C6_SkippedRunsContributeNothing ==
    /\ abort \notin {"FileParseException", "FitError"}
    /\ (mpc = "merge" \/ (mpc \in {"write", "done"} /\ args.merge = <<>>)) =>
         \A i \in 1..Len(input_files) :
            ~has_extension(input_files[i].name) =>
               LET n == Cardinality({k \in 1..Len(output_data) : output_data[k][2] = i})
               IN  IF Failed(i) THEN n = 0 ELSE n = 1 /\ Complete(heap[i])

(***************************************************************************)
(* C8 (as claimed): when the batch holds raw-run inputs and none of them is *)
(* parsed successfully, no output file is written, with or without          *)
(* .cal.json inputs, with or without merge mode.                            *)
(***************************************************************************)
C8_NoParsedRunWritesNothing ==
    (/\ HasRaw /\ mpc # "read" /\ parsed_data = <<>>
     /\ \A i \in 1..Len(input_files) :
            has_extension(input_files[i].name) =>
               ({"formula", "parameters"} \subseteq input_files[i].content.keys))
    => written = <<>>

\* the .cal.json inputs the read loop appends to output_data, in order
RECURSIVE AcceptedUpTo(_)
AcceptedUpTo(n) ==
    IF n = 0 THEN <<>>
    ELSE LET file == input_files[n]
         IN  IF /\ has_extension(file.name)
                /\ (args.merge = <<>> \/ file.content.formula = args.function)
             THEN Append(AcceptedUpTo(n - 1), n)
             ELSE AcceptedUpTo(n - 1)

(***************************************************************************)
(* C8 (amended): when the batch holds raw-run inputs and none of them is    *)
(* parsed successfully, bound resolution is skipped: it computes no bound   *)
(* and raises nothing, and the invocation goes on with the .cal.json        *)
(* inputs.  Without merge mode it ends having written every accepted        *)
(* artifact to its own file; in merge mode it ends having written the one   *)
(* merged file, or aborts inside merge.                                     *)
(***************************************************************************)
C8_NoParsedRunSkipsBounds ==
    (HasRaw /\ mpc \notin {"read", "bounds"} /\ parsed_data = <<>>) =>
        /\ fit_from = Unbound /\ fit_to = Unbound
        /\ abort # "ValueError"
        /\ (abort # "none") =>
              \/ abort = "KeyError" /\ ~merge_result.called
              \/ merge_result.called /\ abort = merge_result.raised
        /\ (mpc = "done" /\ args.merge = <<>>) =>
              /\ [i \in 1..Len(written) |-> written[i].ref] = AcceptedUpTo(Len(input_files))
              /\ \A i \in 1..Len(written) : written[i].name = input_files[written[i].ref].name
        /\ (mpc = "done" /\ args.merge # <<>>) =>
              /\ Len(written) = 1
              /\ written[1].name = MergeFileName(args.merge[1])
              /\ written[1].ref = AcceptedUpTo(Len(input_files))[Len(AcceptedUpTo(Len(input_files)))]

\* an invocation whose raw runs all failed to parse ends having written a file
C8_Witness ==
    /\ HasRaw /\ parsed_data = <<>> /\ mpc = "done" /\ written # <<>>

(***************************************************************************)
(* C10 (as claimed): with a plot channel requested, the plot is emitted at  *)
(* most once over the whole invocation, whatever conversions fail: no later *)
(* run of the batch triggers the plotting sink.                             *)
(***************************************************************************)
C10_PlotAtMostOnce == Len(plots) <= 1

(***************************************************************************)
(* Properties of handle_optional_parameters (SpecBounds).                   *)
(***************************************************************************)
Resolved == mpc = "convert"

\* the maximum of the voltage reference of parsed run r
MaxVoltage(r) == SetMax(Range(heap[parsed_data[r][2]].voltage))

(***************************************************************************)
(* C2 (as claimed): for every batch of N >= 1 parsed runs and every         *)
(* fit_from / fit_to, absent or given, the fit_to returned never exceeds    *)
(* the minimum over the runs of the run's maximum voltage-reference value.  *)
(***************************************************************************)
C2_FitToNeverExceedsMinMax ==
    Resolved => \A r \in 1..Len(parsed_data) :
                   (heap[parsed_data[r][2]].voltage # <<>>) => fit_to <= MaxVoltage(r)

(***************************************************************************)
(* C2 (amended): when fit_to is absent, the fit_to returned is the minimum  *)
(* over the runs of the run's maximum voltage-reference value, so it        *)
(* exceeds no run's maximum; when fit_to is given, the value given is       *)
(* returned as it is, whatever the voltages.  fit_from is 0 when absent and *)
(* the value given otherwise.                                               *)
(***************************************************************************)
C2_FitToDefaultsToMinMax ==
    Resolved =>
        /\ (args.fit_to = <<>>) =>
              /\ \A r \in 1..Len(parsed_data) : fit_to <= MaxVoltage(r)
              /\ \E r \in 1..Len(parsed_data) : fit_to = MaxVoltage(r)
        /\ (args.fit_to # <<>>) => fit_to = args.fit_to[1]
        /\ fit_from = IF args.fit_from = <<>> THEN 0 ELSE args.fit_from[1]

\* the default is taken over two runs whose maxima differ
C2_Witness ==
    /\ Resolved /\ args.fit_to = <<>> /\ Len(parsed_data) = 2
    /\ MaxVoltage(1) # MaxVoltage(2)

(***************************************************************************)
(* Properties of merge (SpecMerge).                                         *)
(***************************************************************************)
Mergeable(list) ==
    /\ list # <<>>
    /\ \A i \in 1..Len(list) : {"formula", "parameters"} \subseteq list[i].keys
    /\ \A i \in 1..Len(list) : list[i].formula = list[1].formula
    /\ \A i \in 1..Len(list) : BoardsUnique(list[i].parameters)
    /\ \A i, j \in 1..Len(list) : (i # j) => ~SharesBoard(list[i], list[j])

Orderings(n) == {p \in [1..n -> 1..n] : \A i, j \in 1..n : (i # j) => (p[i] # p[j])}

(***************************************************************************)
(* C7: for every non-empty list of artifacts with the same formula and      *)
(* pairwise disjoint board-id sets, merge returns an artifact with that     *)
(* formula whose parameters mapping is exactly the union of the inputs'     *)
(* mappings, each board mapped to the records of the input that carried     *)
(* it, and the result is the same for every permutation of the list.        *)
(***************************************************************************)
C7_MergeIsUnion ==
    (merge_result.called /\ Mergeable(to_merge)) =>
        /\ merge_result.raised = "none"
        /\ merge_result.data.keys = {"formula", "parameters"}
        /\ merge_result.data.formula = to_merge[1].formula
        /\ DictKeys(merge_result.data.parameters) =
              UNION {DictKeys(to_merge[i].parameters) : i \in 1..Len(to_merge)}
        /\ \A i \in 1..Len(to_merge) : \A k \in DictKeys(to_merge[i].parameters) :
              DictGet(merge_result.data.parameters, k) = DictGet(to_merge[i].parameters, k)
        /\ \A p \in Orderings(Len(to_merge)) :
              LET other == merge([i \in 1..Len(to_merge) |-> to_merge[p[i]]])
              IN  other.raised = "none" /\ DataEq(other.data, merge_result.data)

\* three artifacts of disjoint boards, loaded and converted, have been merged
C7_Witness ==
    /\ merge_result.called /\ Mergeable(to_merge) /\ Len(to_merge) = 3
    /\ \E i, j \in 1..3 : to_merge[i].parameters[1].key[1] # to_merge[j].parameters[1].key[1]

(***************************************************************************)
(* The driver uses parse_calibration_file on whole files; SpecParse runs    *)
(* its loop line by line.  Whenever the loop ends without ValueError, it    *)
(* returns or raises what the whole-file operator gives for a file with     *)
(* the same name, the same voltage line and as many data lines after it:    *)
(* the same exception with the same counts, or a run with the same voltage  *)
(* reference and the same blocks, cell rows aside.                          *)
(***************************************************************************)
WithoutCells(blocks) == [g \in 1..Len(blocks) |-> [blocks[g] EXCEPT !.cells = "samples"]]

ParseLoopAgreesWithWholeFile ==
    (ppc = "done" /\ result.kind \in {"run", "FileParseException"}) =>
        LET whole == parse_calibration_file(
                        [name |-> file_name,
                         voltage_line |-> IF first THEN <<>> ELSE Append(output.voltage, Junk),
                         data_lines |-> fed,
                         content |-> NoJson])
        IN  /\ whole.kind = result.kind
            /\ whole.msg = result.msg
            /\ whole.expected = result.expected
            /\ whole.actual = result.actual
            /\ (result.kind = "run") =>
                  /\ whole.run.keys = result.run.keys
                  /\ whole.run.voltage = result.run.voltage
                  /\ BlocksOf(whole.run) = WithoutCells(BlocksOf(result.run))

====
